---- MODULE Spec2Model ----
(***************************************************************************)
(* A model of StackVec<LEN, T> (src/src/lib.rs): a fixed-capacity vector   *)
(* kept in an inline array of MaybeUninit<T> slots with a length counter,  *)
(* its owning iterator IntoIter, and its comparison traits.                *)
(*                                                                         *)
(* A slot (MaybeUninit<T>) is <<>> when it holds no value and <<v>> when   *)
(* it holds the element v.  An Option<T> is modelled the same way: <<>> is *)
(* None and <<v>> is Some(v).                                              *)
(***************************************************************************)
EXTENDS Integers, Sequences, FiniteSets

\* ---------------------------------------------------------------- bounds
\* The const generic LEN of StackVec<LEN, T>: the capacity of the container.
LEN == 3
\* The element type T is modelled by the values 1..MaxElem.
MaxElem == 2
\* The longest source sequence handed to extend / from_iter.
MaxSrc == 2
\* The element values compared by the comparison traits are 1..MaxOrdElem,
\* and one more value that is comparable with nothing.
MaxOrdElem == 2
\* The longest container handed to a comparison.
MaxCmpLen == 2

Elems == 1..MaxElem
Slots == 0..(LEN - 1)
Sources == UNION {[1..n -> Elems] : n \in 0..MaxSrc}

VARIABLES
    data,      \* StackVec::data : the LEN slots
    len,       \* StackVec::len
    last,      \* the last call on the container: its arguments, the length it started from, its outcome
    pushed,    \* history: whether push alone has been called since the container was empty, and with which elements
    i,         \* IntoIter::i : the front cursor
    end,       \* IntoIter::end : the back cursor, exclusive
    yielded,   \* the productions of the iterator so far: which call, which slot, which value (history)
    released,  \* per slot, how many times teardown has run assume_init_drop on it (history)
    dropped,   \* whether the iterator, or the container, has been torn down
    ilast,     \* the last call on the iterator: the cursors it started from, its outcome
    lhs,       \* the container a comparison is called on (self)
    rhs,       \* the container it is compared with (other)
    cres,      \* the last comparison made of lhs and rhs, and its result
    snap,      \* history: the container as it was before a push that succeeded, kept through the pop that follows it
    view,      \* the last slice borrowed from the container: the range asked for, and the elements seen through it
    dup        \* the duplicate made by the last call when it was clone, and the slots clone read

iterVars == <<i, end, yielded, released, dropped, ilast>>
cmpVars == <<lhs, rhs, cres>>
vars == <<data, len, last, pushed, i, end, yielded, released, dropped, ilast, lhs, rhs, cres,
         snap, view, dup>>

\* ------------------------------------------------------------ slots
\* MaybeUninit::uninit()
Uninit == <<>>
\* MaybeUninit::new(v) / MaybeUninit::write(v)
Init_(v) == <<v>>

\* assume_init / assume_init_ref on a slot: the value it holds; on a slot that
\* holds none the read is undefined behaviour and may produce any value of T.
AssumeInit(slot) == IF slot = Uninit THEN Elems ELSE {slot[1]}

\* [MaybeUninit<T>; LEN]::swap(i, j)
Swap(d, x, y) == [d EXCEPT ![x] = d[y], ![y] = d[x]]

\* The array produced by MaybeUninit::uninit().assume_init(): no slot holds a value.
UninitArray == [s \in Slots |-> Uninit]

\* The outcome record of a call.
Call(op, idx, src, status, ret, rel) ==
    [op |-> op, idx |-> idx, src |-> src, status |-> status, ret |-> ret,
     rel |-> rel, len0 |-> len]

\* ------------------------------------------------------------ operations
\* push with the capacity test off by one (len <= LEN): a push on a full
\* container writes past the last slot and still counts the element.
PushNoCeiling(elem) ==
    IF len <= LEN
    THEN /\ data' = [s \in Slots |-> IF s = len THEN Init_(elem) ELSE data[s]]
         /\ len' = len + 1
         /\ last' = Call("push", len, <<elem>>, "ok", <<>>, <<>>)
    ELSE /\ UNCHANGED <<data, len>>
         /\ last' = Call("push", len, <<elem>>, "panic", <<>>, <<>>)

\* push that, on a full container, silently replaces the last element
\* instead of failing.
PushReplacesLast(elem) ==
    IF len < LEN
    THEN /\ data' = [data EXCEPT ![len] = Init_(elem)]
         /\ len' = len + 1
         /\ last' = Call("push", len, <<elem>>, "ok", <<>>, <<>>)
    ELSE /\ data' = [data EXCEPT ![LEN - 1] = Init_(elem)]
         /\ len' = len
         /\ last' = Call("push", len, <<elem>>, "ok", <<>>, <<>>)

\* StackVec::push
Push(elem) ==
    IF len < LEN
    THEN /\ data' = [data EXCEPT ![len] = Init_(elem)]
         /\ len' = len + 1
         /\ last' = Call("push", len, <<elem>>, "ok", <<>>, <<>>)
    ELSE /\ UNCHANGED <<data, len>>
         /\ last' = Call("push", len, <<elem>>, "panic", <<>>, <<>>)

\* get with the bound test off by one (idx <= len): the slot at len is read.
GetUpToLen(idx) ==
    /\ UNCHANGED <<data, len>>
    /\ IF idx <= len /\ idx \in Slots
       THEN \E v \in AssumeInit(data[idx]) :
               last' = Call("get", idx, <<>>, "ok", <<v>>, <<>>)
       ELSE last' = Call("get", idx, <<>>, "ok", <<>>, <<>>)

\* StackVec::get
Get(idx) ==
    /\ UNCHANGED <<data, len>>
    /\ IF idx < len
       THEN \E v \in AssumeInit(data[idx]) :
               last' = Call("get", idx, <<>>, "ok", <<v>>, <<>>)
       ELSE last' = Call("get", idx, <<>>, "ok", <<>>, <<>>)

\* The insert loop without .rev(): the swaps run from idx + 1 up to k, which
\* carries the element at idx to the end instead of opening a gap at idx.
RECURSIVE InsertShiftAscending(_, _, _)
InsertShiftAscending(d, k, idx) ==
    IF idx + 1 > k THEN d ELSE InsertShiftAscending(Swap(d, idx + 1, idx), k, idx + 1)

\* The loop of StackVec::insert: for i in (idx + 1..=self.len).rev() { self.data.swap(i, i - 1) }
RECURSIVE InsertShift(_, _, _)
InsertShift(d, k, idx) ==
    IF k < idx + 1 THEN d ELSE InsertShift(Swap(d, k, k - 1), k - 1, idx)

\* StackVec::insert
Insert(idx, elem) ==
    IF len < LEN
    THEN IF idx <= LEN
         THEN LET shifted == InsertShift(data, len, idx)
              IN IF idx \in Slots
                 THEN /\ data' = [shifted EXCEPT ![idx] = Init_(elem)]
                      /\ len' = len + 1
                      /\ last' = Call("insert", idx, <<elem>>, "ok", <<>>, <<>>)
                 ELSE \* self.data[idx] with idx == LEN: the array's bounds check fails
                      /\ data' = shifted
                      /\ len' = len
                      /\ last' = Call("insert", idx, <<elem>>, "panic", <<>>, <<>>)
         ELSE /\ UNCHANGED <<data, len>>
              /\ last' = Call("insert", idx, <<elem>>, "panic", <<>>, <<>>)
    ELSE /\ UNCHANGED <<data, len>>
         /\ last' = Call("insert", idx, <<elem>>, "panic", <<>>, <<>>)

\* remove without its loop: nothing is shifted, so the last element is the
\* one taken.
RemoveShiftNone(d, k, hi) == d

\* The loop of StackVec::remove: for i in idx..self.len - 1 { self.data.swap(i, i + 1) }
RECURSIVE RemoveShift(_, _, _)
RemoveShift(d, k, hi) ==
    IF k >= hi THEN d ELSE RemoveShift(Swap(d, k, k + 1), k + 1, hi)

\* The tail shared by remove, swap_remove and pop: swap the slot at len - 1
\* with an uninitialized one, decrement len, return Some(res.assume_init()).
TakeLast(op, idx, d) ==
    \E v \in AssumeInit(d[len - 1]) :
        /\ data' = [d EXCEPT ![len - 1] = Uninit]
        /\ len' = len - 1
        /\ last' = Call(op, idx, <<>>, "ok", <<v>>, <<>>)

\* StackVec::remove
Remove(idx) ==
    IF idx < len
    THEN TakeLast("remove", idx, RemoveShift(data, idx, len - 1))
    ELSE /\ UNCHANGED <<data, len>>
         /\ last' = Call("remove", idx, <<>>, "ok", <<>>, <<>>)

\* swap_remove that shifts as remove does instead of swapping.
SwapRemoveShifts(idx) ==
    IF idx < len
    THEN TakeLast("swap_remove", idx, RemoveShift(data, idx, len - 1))
    ELSE /\ UNCHANGED <<data, len>>
         /\ last' = Call("swap_remove", idx, <<>>, "ok", <<>>, <<>>)

\* StackVec::swap_remove
SwapRemove(idx) ==
    IF idx < len
    THEN TakeLast("swap_remove", idx, Swap(data, idx, len - 1))
    ELSE /\ UNCHANGED <<data, len>>
         /\ last' = Call("swap_remove", idx, <<>>, "ok", <<>>, <<>>)

\* pop that takes the last element and forgets to decrement len.
PopLeavesLen ==
    IF len > 0
    THEN \E v \in AssumeInit(data[len - 1]) :
            /\ data' = [data EXCEPT ![len - 1] = Uninit]
            /\ len' = len
            /\ last' = Call("pop", len - 1, <<>>, "ok", <<v>>, <<>>)
    ELSE /\ UNCHANGED <<data, len>>
         /\ last' = Call("pop", 0, <<>>, "ok", <<>>, <<>>)

\* StackVec::pop
Pop ==
    IF len > 0
    THEN TakeLast("pop", len - 1, data)
    ELSE /\ UNCHANGED <<data, len>>
         /\ last' = Call("pop", 0, <<>>, "ok", <<>>, <<>>)

\* The slots 0..n-1 in ascending order: the order of `for i in 0..n`.
UpTo(n) == [k \in 1..n |-> k - 1]

\* clear that releases the elements and leaves len as it was.
ClearKeepsLen ==
    /\ data' = [s \in Slots |-> IF s < len THEN Uninit ELSE data[s]]
    /\ len' = len
    /\ last' = Call("clear", 0, <<>>, "ok", <<>>, UpTo(len))

\* StackVec::clear
Clear ==
    /\ data' = [s \in Slots |-> IF s < len THEN Uninit ELSE data[s]]
    /\ len' = 0
    /\ last' = Call("clear", 0, <<>>, "ok", <<>>, UpTo(len))

\* extend made atomic: when a push fails, the elements appended by this call
\* are taken out again.
RECURSIVE ExtendLoopRollsBack(_, _, _, _)
ExtendLoopRollsBack(d, n, src, k) ==
    IF k > Len(src)
    THEN [data |-> d, len |-> n, status |-> "ok"]
    ELSE IF n < LEN
         THEN ExtendLoopRollsBack([d EXCEPT ![n] = Init_(src[k])], n + 1, src, k + 1)
         ELSE [data |-> [s \in Slots |-> IF s >= n - (k - 1) THEN Uninit ELSE d[s]],
               len |-> n - (k - 1), status |-> "panic"]

\* clone that copies the whole array, the slots from len on included.
CloneWholeArray(c) == {[data |-> c.data, len |-> c.len]}

\* <StackVec as Clone>::clone of the container c = [data, len]: a fresh
\* uninitialized array whose slots below c.len receive a clone of what
\* assume_init_ref sees in c's slot -- the element, or any value of T where
\* the slot holds none. The set of the duplicates it can make.
Clone(c) ==
    LET holes == {s \in Slots : s < c.len /\ c.data[s] = Uninit}
    IN {[data |-> [s \in Slots |->
                      IF s \in holes THEN Init_(seen[s])
                      ELSE IF s < c.len THEN c.data[s]
                      ELSE Uninit],
         len |-> c.len] : seen \in [holes -> Elems]}

\* The slots clone calls assume_init_ref on, in order: for i in 0..self.len
CloneReads(c) == UpTo(c.len)

\* <StackVec as Drop>::drop : the container goes out of scope; the slots below
\* len are released in ascending order.
DropVec ==
    /\ data' = [s \in Slots |-> IF s < len THEN Uninit ELSE data[s]]
    /\ len' = len
    /\ last' = Call("drop", 0, <<>>, "ok", <<>>, UpTo(len))

\* The loop of StackVec::extend: for elem in elems { self.push(elem) }, which
\* stops at the first push that panics. k is the position of the next element.
RECURSIVE ExtendLoop(_, _, _, _)
ExtendLoop(d, n, src, k) ==
    IF k > Len(src)
    THEN [data |-> d, len |-> n, status |-> "ok"]
    ELSE IF n < LEN
         THEN ExtendLoop([d EXCEPT ![n] = Init_(src[k])], n + 1, src, k + 1)
         ELSE [data |-> d, len |-> n, status |-> "panic"]

\* StackVec::extend
Extend(src) ==
    LET r == ExtendLoop(data, len, src, 1)
    IN /\ data' = r.data
       /\ len' = r.len
       /\ last' = Call("extend", 0, src, r.status, <<>>, <<>>)

\* StackVec::new
Empty == [data |-> UninitArray, len |-> 0]

\* from_iter that takes the source from its back.
FromSeqReversed(src) ==
    LET rev == [k \in 1..Len(src) |-> src[Len(src) + 1 - k]]
        r == ExtendLoop(Empty.data, Empty.len, rev, 1)
    IN [data |-> r.data, len |-> r.len, status |-> r.status]

\* FromIterator::from_iter (and the From impls, which call it): a new StackVec
\* extended with the source.
FromSeq(src) ==
    LET r == ExtendLoop(Empty.data, Empty.len, src, 1)
    IN [data |-> r.data, len |-> r.len, status |-> r.status]

\* The sources a container can be constructed from: the sequences that fit
\* (with any other, from_iter panics and there is no container).
Fitting == UNION {[1..n -> Elems] : n \in 0..LEN}

\* The state of the model outside the part a specification is about.
NoCall == [op |-> "new", idx |-> 0, src |-> <<>>, status |-> "ok", ret |-> <<>>,
           rel |-> <<>>, len0 |-> 0]
NoIterCall == [op |-> "none", status |-> "ok", ret |-> <<>>, slot |-> 0, i0 |-> 0, end0 |-> 0]
NoIter ==
    /\ i = 0
    /\ end = 0
    /\ yielded = <<>>
    /\ released = [s \in Slots |-> 0]
    /\ dropped = FALSE
    /\ ilast = NoIterCall

NoCmpCall == [op |-> "none", ret |-> "none"]
NoCmp ==
    /\ lhs = Empty
    /\ rhs = Empty
    /\ cres = NoCmpCall

NoSnap == [stage |-> "none", data |-> UninitArray, len |-> 0, elem |-> 0]
NoView == [form |-> "none", start |-> 0, end |-> 0, status |-> "ok", ret |-> <<>>]
NoDup == [op |-> "none", vec |-> Empty, i |-> 0, end |-> 0, read |-> <<>>]
NoRead ==
    /\ snap = NoSnap
    /\ view = NoView
    /\ dup = NoDup

\* ------------------------------------------------------------ the container
\* The container after construction: StackVec::new(), or from_iter on a
\* source that fits.
Init ==
    /\ \E src \in Fitting :
          /\ data = FromSeq(src).data
          /\ len = FromSeq(src).len
          /\ \/ /\ src = <<>>
                /\ last = NoCall
                /\ pushed = [only |-> TRUE, elems |-> <<>>]
             \/ /\ last = [NoCall EXCEPT !.op = "from_iter", !.src = src]
                /\ pushed = [only |-> FALSE, elems |-> <<>>]
    /\ NoIter
    /\ NoCmp
    /\ NoRead

\* The indices a caller passes: every slot, the capacity, and one past it.
Indices == 0..(LEN + 1)

\* The history of pushes: push alone, on a container that started empty,
\* followed up to the call after the LEN-th.
AfterPush(e) ==
    IF pushed.only /\ Len(pushed.elems) <= LEN
    THEN [only |-> TRUE, elems |-> Append(pushed.elems, e)]
    ELSE [only |-> FALSE, elems |-> <<>>]
AfterOther == [only |-> FALSE, elems |-> <<>>]
\* clear() leaves an empty container
AfterClear == [only |-> TRUE, elems |-> <<>>]

\* The history of a push and the pop that follows it: the container before a
\* push that succeeds, carried over the next call when that call is pop.
SnapPush(e) ==
    IF len < LEN
    THEN [stage |-> "pushed", data |-> data, len |-> len, elem |-> e]
    ELSE NoSnap
SnapPop == IF snap.stage = "pushed" THEN [snap EXCEPT !.stage = "popped"] ELSE NoSnap

DoPush ==
    \E e \in Elems :
        /\ ~dropped
        /\ Push(e)
        /\ pushed' = AfterPush(e)
        /\ snap' = SnapPush(e)
        /\ UNCHANGED <<iterVars, cmpVars, view, dup>>
DoGet ==
    \E idx \in Indices :
        /\ ~dropped
        /\ Get(idx)
        /\ pushed' = AfterOther
        /\ snap' = NoSnap
        /\ UNCHANGED <<iterVars, cmpVars, view, dup>>
DoInsert ==
    \E idx \in Indices, e \in Elems :
        /\ ~dropped
        /\ Insert(idx, e)
        /\ pushed' = AfterOther
        /\ snap' = NoSnap
        /\ UNCHANGED <<iterVars, cmpVars, view, dup>>
DoRemove ==
    \E idx \in Indices :
        /\ ~dropped
        /\ Remove(idx)
        /\ pushed' = AfterOther
        /\ snap' = NoSnap
        /\ UNCHANGED <<iterVars, cmpVars, view, dup>>
DoSwapRemove ==
    \E idx \in Indices :
        /\ ~dropped
        /\ SwapRemove(idx)
        /\ pushed' = AfterOther
        /\ snap' = NoSnap
        /\ UNCHANGED <<iterVars, cmpVars, view, dup>>
DoPop ==
    /\ ~dropped
    /\ Pop
    /\ pushed' = AfterOther
    /\ snap' = SnapPop
    /\ UNCHANGED <<iterVars, cmpVars, view, dup>>
DoClear ==
    /\ ~dropped
    /\ Clear
    /\ pushed' = AfterClear
    /\ snap' = NoSnap
    /\ UNCHANGED <<iterVars, cmpVars, view, dup>>
DoExtend ==
    \E src \in Sources :
        /\ ~dropped
        /\ Extend(src)
        /\ pushed' = AfterOther
        /\ snap' = NoSnap
        /\ UNCHANGED <<iterVars, cmpVars, view, dup>>
\* The container is destroyed; nothing can be called on it afterwards.
DoDropVec ==
    /\ ~dropped
    /\ DropVec
    /\ dropped' = TRUE
    /\ pushed' = AfterOther
    /\ snap' = NoSnap
    /\ UNCHANGED <<i, end, yielded, released, ilast, cmpVars, view, dup>>

Next ==
    \/ DoPush
    \/ DoInsert
    \/ DoRemove
    \/ DoSwapRemove
    \/ DoPop
    \/ DoClear
    \/ DoExtend
    \/ DoGet
    \/ DoDropVec

Spec == Init /\ [][Next]_vars

\* ------------------------------------------------------------ the owning iterator
\* The outcome record of a call on the iterator.
IterCall(op, status, ret, slot) ==
    [op |-> op, status |-> status, ret |-> ret, slot |-> slot, i0 |-> i, end0 |-> end]

\* <IntoIter as Iterator>::next
IterNext ==
    IF i < end
    THEN \E v \in AssumeInit(data[i]) :
            /\ data' = [data EXCEPT ![i] = Uninit]
            /\ i' = i + 1
            /\ yielded' = Append(yielded, [op |-> "next", slot |-> i, val |-> v])
            /\ ilast' = IterCall("next", "ok", <<v>>, i)
            /\ UNCHANGED <<len, end, released, dropped>>
    ELSE /\ ilast' = IterCall("next", "ok", <<>>, i)
         /\ UNCHANGED <<data, len, i, end, yielded, released, dropped>>

\* <IntoIter as DoubleEndedIterator>::next_back
IterNextBack ==
    IF end > 0
    THEN IF end \in Slots
         THEN \E v \in AssumeInit(data[end]) :
                 /\ data' = [data EXCEPT ![end] = Uninit]
                 /\ end' = end - 1
                 /\ yielded' = Append(yielded, [op |-> "next_back", slot |-> end, val |-> v])
                 /\ ilast' = IterCall("next_back", "ok", <<v>>, end)
                 /\ UNCHANGED <<len, i, released, dropped>>
         ELSE \* self.vec.data[self.end] with end == LEN: the array's bounds check fails
              /\ ilast' = IterCall("next_back", "panic", <<>>, end)
              /\ UNCHANGED <<data, len, i, end, yielded, released, dropped>>
    ELSE /\ ilast' = IterCall("next_back", "ok", <<>>, end)
         /\ UNCHANGED <<data, len, i, end, yielded, released, dropped>>

\* The number of assume_init_drop calls per slot made by <IntoIter as Drop>::drop
\* (slots i..end-1) and then by <StackVec as Drop>::drop on its field vec
\* (slots 0..len-1).
DropCounts ==
    [s \in Slots |-> (IF i <= s /\ s < end THEN 1 ELSE 0) + (IF s < len THEN 1 ELSE 0)]

\* Dropping the iterator: <IntoIter as Drop>::drop, then the drop of its fields.
IterDrop ==
    /\ released' = [s \in Slots |-> released[s] + DropCounts[s]]
    /\ data' = [s \in Slots |-> IF DropCounts[s] > 0 THEN Uninit ELSE data[s]]
    /\ i' = IF i < end THEN end ELSE i
    /\ dropped' = TRUE
    /\ ilast' = IterCall("drop", "ok", <<>>, 0)
    /\ UNCHANGED <<len, end, yielded>>

\* self.end - self.i in usize. When end is below i the subtraction overflows:
\* a build with overflow checks panics, one without wraps, and val then
\* stands for 2^64 + val.
Remaining ==
    IF end >= i
    THEN {[status |-> "ok", val |-> end - i]}
    ELSE {[status |-> "panic", val |-> 0], [status |-> "wrapped", val |-> end - i]}

\* <IntoIter as ExactSizeIterator>::len
IterLen ==
    /\ \E r \in Remaining :
          ilast' = IterCall("len", r.status, IF r.status = "panic" THEN <<>> ELSE <<r.val>>, 0)
    /\ UNCHANGED <<data, len, i, end, yielded, released, dropped>>

\* <IntoIter as Iterator>::size_hint : (end - i, Some(end - i))
IterSizeHint ==
    /\ \E r \in Remaining :
          ilast' = IterCall("size_hint", r.status,
                            IF r.status = "panic" THEN <<>> ELSE <<r.val, r.val>>, 0)
    /\ UNCHANGED <<data, len, i, end, yielded, released, dropped>>

\* <IntoIter as Iterator>::count : end - i, and self, taken by value, is
\* dropped when the call ends.
IterCount ==
    /\ \E r \in Remaining :
          ilast' = IterCall("count", r.status, IF r.status = "panic" THEN <<>> ELSE <<r.val>>, 0)
    /\ released' = [s \in Slots |-> released[s] + DropCounts[s]]
    /\ data' = [s \in Slots |-> IF DropCounts[s] > 0 THEN Uninit ELSE data[s]]
    /\ i' = IF i < end THEN end ELSE i
    /\ dropped' = TRUE
    /\ UNCHANGED <<len, end, yielded>>

\* <IntoIter as Clone>::clone, derived: the field vec is cloned by
\* <StackVec as Clone>::clone, the cursors are copied.
IterClone ==
    /\ \E c \in Clone([data |-> data, len |-> len]) :
          dup' = [op |-> "iter_clone", vec |-> c, i |-> i, end |-> end,
                  read |-> CloneReads([data |-> data, len |-> len])]
    /\ ilast' = IterCall("clone", "ok", <<>>, 0)
    /\ UNCHANGED <<data, len, i, end, yielded, released, dropped>>

\* StackVec::into_iter on a container built by from_iter.
InitIter ==
    \E src \in Fitting :
        LET r == FromSeq(src)
        IN /\ data = r.data
           /\ len = r.len
           /\ last = [NoCall EXCEPT !.op = "from_iter", !.src = src]
           /\ pushed = AfterOther
           /\ NoRead
           /\ i = 0
           /\ end = r.len
           /\ yielded = <<>>
           /\ released = [s \in Slots |-> 0]
           /\ dropped = FALSE
           /\ ilast = [NoIterCall EXCEPT !.op = "into_iter", !.end0 = r.len]
           /\ NoCmp

DoNext == ~dropped /\ IterNext /\ UNCHANGED <<last, pushed, cmpVars, snap, view>> /\ dup' = NoDup
DoNextBack == ~dropped /\ IterNextBack /\ UNCHANGED <<last, pushed, cmpVars, snap, view>> /\ dup' = NoDup
DoDrop == ~dropped /\ IterDrop /\ UNCHANGED <<last, pushed, cmpVars, snap, view>> /\ dup' = NoDup

DoLen == ~dropped /\ IterLen /\ UNCHANGED <<last, pushed, cmpVars, snap, view>> /\ dup' = NoDup
DoSizeHint ==
    ~dropped /\ IterSizeHint /\ UNCHANGED <<last, pushed, cmpVars, snap, view>> /\ dup' = NoDup
DoCount == ~dropped /\ IterCount /\ UNCHANGED <<last, pushed, cmpVars, snap, view>> /\ dup' = NoDup
DoIterClone == ~dropped /\ IterClone /\ UNCHANGED <<last, pushed, cmpVars, snap, view>>

NextIter ==
    \/ DoNext
    \/ DoNextBack
    \/ DoDrop
    \/ DoLen
    \/ DoSizeHint
    \/ DoCount
    \/ DoIterClone

SpecIter == InitIter /\ [][NextIter]_vars

\* ------------------------------------------------------------ comparison
OrdElems == 1..MaxOrdElem
\* A value of T whose partial_cmp with any value is None and which equals no
\* value, itself included (as a floating-point NaN).
Nan == MaxOrdElem + 1
CmpElems == OrdElems \cup {Nan}

\* T::partial_cmp on two elements
ElemPartialCmp(x, y) ==
    IF x = Nan \/ y = Nan THEN "None"
    ELSE IF x < y THEN "Less"
    ELSE IF x > y THEN "Greater"
    ELSE "Equal"

\* T::eq on two elements
ElemEq(x, y) == x # Nan /\ y # Nan /\ x = y

\* assume_init_ref on slot k of a container
Ref(c, k) == c.data[k][1]

\* The loop of <StackVec as PartialOrd>::partial_cmp, entered at index k, and
\* the Some(Ordering::Equal) that follows it.
RECURSIVE PartialCmpLoop(_, _, _)
PartialCmpLoop(a, b, k) ==
    IF k >= a.len /\ k >= b.len THEN "Equal"
    ELSE IF k < a.len THEN "Less"
    ELSE IF k < b.len THEN "Greater"
    ELSE LET c == ElemPartialCmp(Ref(a, k), Ref(b, k))
         IN IF c = "Equal" THEN PartialCmpLoop(a, b, k + 1) ELSE c

\* <StackVec as PartialOrd>::partial_cmp
PartialCmp(a, b) == PartialCmpLoop(a, b, 0)

\* eq without the length test: the elements are compared up to the shorter
\* length only.
RECURSIVE EqLoopToShorter(_, _, _)
EqLoopToShorter(a, b, k) ==
    IF k >= a.len \/ k >= b.len THEN TRUE
    ELSE IF ~ElemEq(Ref(a, k), Ref(b, k)) THEN FALSE
    ELSE EqLoopToShorter(a, b, k + 1)
EqIgnoringLen(a, b) == EqLoopToShorter(a, b, 0)

\* eq whose loop runs over the whole array instead of the first len slots.
EqWholeArray(a, b) ==
    /\ a.len = b.len
    /\ \A k \in Slots :
          /\ (a.data[k] = Uninit) = (b.data[k] = Uninit)
          /\ a.data[k] # Uninit => ElemEq(Ref(a, k), Ref(b, k))

\* The loop of <StackVec as PartialEq>::eq, entered at index k, and the
\* `true` that follows it.
RECURSIVE EqLoop(_, _, _)
EqLoop(a, b, k) ==
    IF k >= a.len THEN TRUE
    ELSE IF ~ElemEq(Ref(a, k), Ref(b, k)) THEN FALSE
    ELSE EqLoop(a, b, k + 1)

\* <StackVec as PartialEq>::eq
Eq(a, b) == IF a.len # b.len THEN FALSE ELSE EqLoop(a, b, 0)

\* The loop of <StackVec as PartialEq>::ne, entered at index k, and the
\* `true` that follows it: the loop returns false at the first pair of equal
\* elements.
RECURSIVE NeLoop(_, _, _)
NeLoop(a, b, k) ==
    IF k >= a.len THEN TRUE
    ELSE IF ElemEq(Ref(a, k), Ref(b, k)) THEN FALSE
    ELSE NeLoop(a, b, k + 1)

\* <StackVec as PartialEq>::ne
Ne(a, b) == IF a.len # b.len THEN TRUE ELSE NeLoop(a, b, 0)

\* <StackVec as Ord>::cmp : partial_cmp(..).expect(..)
Cmp(a, b) == IF PartialCmp(a, b) = "None" THEN "panic" ELSE PartialCmp(a, b)

\* The containers compared: built by from_iter from any sequence of at most
\* MaxCmpLen elements.
CmpSources == UNION {[1..n -> CmpElems] : n \in 0..MaxCmpLen}
\* from_iter on a source of comparable elements
FromCmpSeq(src) ==
    LET r == ExtendLoop(Empty.data, Empty.len, src, 1) IN [data |-> r.data, len |-> r.len]

\* The containers built from a source, as they are and with a value left in
\* the slot at len: the state insert leaves when called with an index past
\* len (its test is idx <= LEN), once the elements below are popped and
\* pushed again.
Built(src) ==
    LET c == FromCmpSeq(src)
    IN {c} \cup {[c EXCEPT !.data[c.len] = Init_(v)] : v \in CmpElems}

Containers == UNION {Built(src) : src \in CmpSources}

InitCmp ==
    /\ data = Empty.data
    /\ len = Empty.len
    /\ last = NoCall
    /\ pushed = AfterOther
    /\ NoIter
    /\ NoRead
    /\ lhs \in Containers
    /\ rhs \in Containers
    /\ cres = NoCmpCall

\* Whether every element of a container is totally ordered (T: Ord).
TotallyOrdered(c) == \A k \in Slots : k < c.len => Ref(c, k) # Nan

DoPartialCmp ==
    /\ cres' = [op |-> "partial_cmp", ret |-> PartialCmp(lhs, rhs)]
    /\ dup' = NoDup
    /\ UNCHANGED <<data, len, last, pushed, iterVars, lhs, rhs, snap, view>>

DoCmp ==
    /\ TotallyOrdered(lhs)
    /\ TotallyOrdered(rhs)
    /\ cres' = [op |-> "cmp", ret |-> Cmp(lhs, rhs)]
    /\ dup' = NoDup
    /\ UNCHANGED <<data, len, last, pushed, iterVars, lhs, rhs, snap, view>>

DoEq ==
    /\ cres' = [op |-> "eq", ret |-> IF Eq(lhs, rhs) THEN "true" ELSE "false"]
    /\ dup' = NoDup
    /\ UNCHANGED <<data, len, last, pushed, iterVars, lhs, rhs, snap, view>>

DoNe ==
    /\ cres' = [op |-> "ne", ret |-> IF Ne(lhs, rhs) THEN "true" ELSE "false"]
    /\ dup' = NoDup
    /\ UNCHANGED <<data, len, last, pushed, iterVars, lhs, rhs, snap, view>>

\* lhs.clone()
DoClone ==
    /\ \E c \in Clone(lhs) :
          dup' = [op |-> "clone", vec |-> c, i |-> 0, end |-> 0, read |-> CloneReads(lhs)]
    /\ cres' = NoCmpCall
    /\ UNCHANGED <<data, len, last, pushed, iterVars, lhs, rhs, snap, view>>

NextCmp ==
    \/ DoPartialCmp
    \/ DoCmp
    \/ DoEq
    \/ DoNe
    \/ DoClone

SpecCmp == InitCmp /\ [][NextCmp]_vars

\* ------------------------------------------------------------ slices
\* What a conversion closure of index_range_impl! yields: the pair
\* (start, end) to slice the array with, or a panic.
Bounds(lo, hi) == [status |-> "ok", start |-> lo, end |-> hi]
OutOfBounds == [status |-> "panic", start |-> 0, end |-> 0]

\* Range<usize> : start..end
ConvRange(n, a, b) ==
    IF a >= n THEN OutOfBounds
    ELSE IF b > n THEN OutOfBounds
    ELSE Bounds(a, b)
\* RangeInclusive<usize> : start..=end
ConvRangeInclusive(n, a, b) ==
    IF a >= n THEN OutOfBounds
    ELSE IF b >= n THEN OutOfBounds
    ELSE Bounds(a, b + 1)
\* RangeFrom<usize> : start..
ConvRangeFrom(n, a) == IF a >= n THEN OutOfBounds ELSE Bounds(a, n)
\* RangeTo<usize> : ..end
ConvRangeTo(n, b) == IF b > n THEN OutOfBounds ELSE Bounds(0, b)
\* RangeToInclusive<usize> : ..=end
ConvRangeToInclusive(n, b) == IF b >= n THEN OutOfBounds ELSE Bounds(0, b + 1)
\* RangeFull : ..
ConvRangeFull(n) == Bounds(0, n)

\* The conversion chosen by the type of the range.
Conv(form, n, a, b) ==
    CASE form = "range" -> ConvRange(n, a, b)
      [] form = "inclusive" -> ConvRangeInclusive(n, a, b)
      [] form = "from" -> ConvRangeFrom(n, a)
      [] form = "to" -> ConvRangeTo(n, b)
      [] form = "to_inclusive" -> ConvRangeToInclusive(n, b)
      [] OTHER -> ConvRangeFull(n)

\* transmute(&self.data[lo..hi]) : the slots lo..hi-1 read as a [T]; a slot
\* that holds no value may be seen as any value of T.
Transmute(lo, hi) ==
    {t \in [1..(hi - lo) -> Elems] :
        \A k \in 1..(hi - lo) : t[k] \in AssumeInit(data[lo + k - 1])}

\* The body of index_range_impl!'s index: convert the range, slice the array
\* (which panics when start > end or end > LEN), transmute.
Index(form, a, b) ==
    LET c == Conv(form, len, a, b)
    IN /\ UNCHANGED <<data, len>>
       /\ IF c.status = "panic" \/ c.start > c.end \/ c.end > LEN
          THEN view' = [form |-> form, start |-> a, end |-> b,
                        status |-> "panic", ret |-> <<>>]
          ELSE \E t \in Transmute(c.start, c.end) :
                  view' = [form |-> form, start |-> a, end |-> b,
                           status |-> "ok", ret |-> t]

\* StackVec::as_slice : &self[..]
AsSlice ==
    /\ UNCHANGED <<data, len>>
    /\ \E t \in Transmute(ConvRangeFull(len).start, ConvRangeFull(len).end) :
          view' = [form |-> "as_slice", start |-> 0, end |-> 0,
                   status |-> "ok", ret |-> t]

\* A container built by from_iter (or From) from a source that fits.
InitRead ==
    /\ \E src \in Fitting :
          /\ data = FromSeq(src).data
          /\ len = FromSeq(src).len
          /\ last = [NoCall EXCEPT !.op = "from_iter", !.src = src]
    /\ pushed = AfterOther
    /\ NoIter
    /\ NoCmp
    /\ NoRead

DoIndexRange ==
    \E a \in Indices, b \in Indices :
        Index("range", a, b) /\ UNCHANGED <<last, pushed, iterVars, cmpVars, snap, dup>>
DoIndexRangeInclusive ==
    \E a \in Indices, b \in Indices :
        Index("inclusive", a, b) /\ UNCHANGED <<last, pushed, iterVars, cmpVars, snap, dup>>
DoIndexRangeFrom ==
    \E a \in Indices :
        Index("from", a, 0) /\ UNCHANGED <<last, pushed, iterVars, cmpVars, snap, dup>>
DoIndexRangeTo ==
    \E b \in Indices :
        Index("to", 0, b) /\ UNCHANGED <<last, pushed, iterVars, cmpVars, snap, dup>>
DoIndexRangeToInclusive ==
    \E b \in Indices :
        Index("to_inclusive", 0, b) /\ UNCHANGED <<last, pushed, iterVars, cmpVars, snap, dup>>
DoIndexRangeFull ==
    Index("full", 0, 0) /\ UNCHANGED <<last, pushed, iterVars, cmpVars, snap, dup>>
DoAsSlice ==
    AsSlice /\ UNCHANGED <<last, pushed, iterVars, cmpVars, snap, dup>>

NextRead ==
    \/ DoIndexRange
    \/ DoIndexRangeInclusive
    \/ DoIndexRangeFrom
    \/ DoIndexRangeTo
    \/ DoIndexRangeToInclusive
    \/ DoIndexRangeFull
    \/ DoAsSlice

SpecRead == InitRead /\ [][NextRead]_vars

\* ================================================================ claims

\* C1: invariant I1 -- after any sequence of push, insert, remove,
\* swap_remove, pop, clear and extend calls, failed ones included, the slots
\* below len are exactly the slots that hold a constructed element.
C1_I1 ==
    \A s \in Slots : (s < len) <=> (data[s] # Uninit)

\* C2: in every reachable state 0 <= len <= LEN.
C2_LenWithinCapacity ==
    len \in 0..LEN

\* C2 witness: a push was refused on a full container.
C2_Witness ==
    /\ last.op = "push"
    /\ last.status = "panic"
    /\ len = LEN

\* C3: a step that is insert(idx, elem) with idx > len fails fatally, from
\* every state: elem is stored nowhere and len is unchanged.
C3_InsertPastLenFails ==
    [][(last'.op = "insert" /\ last'.idx > len) =>
            /\ last'.status = "panic"
            /\ data' = data
            /\ len' = len]_vars

\* C4: a step that is insert(idx, elem) with len < LEN and idx <= len leaves
\* the slots below idx as they were, elem at idx and the former slots
\* idx..len-1 one place further, with len one larger; a step that is insert
\* on a full container fails and leaves len and the slots unchanged.
C4_InsertShifts ==
    [][last'.op = "insert" =>
            /\ (len < LEN /\ last'.idx <= len) =>
                  /\ last'.status = "ok"
                  /\ len' = len + 1
                  /\ \A s \in Slots :
                        data'[s] = IF s < last'.idx THEN data[s]
                                   ELSE IF s = last'.idx THEN Init_(last'.src[1])
                                   ELSE IF s <= len THEN data[s - 1]
                                   ELSE data[s]
            /\ len = LEN =>
                  /\ last'.status = "panic"
                  /\ len' = len
                  /\ data' = data]_vars

\* C4 witness: an insert into the middle of a container of two or more
\* elements has shifted the elements behind it, and the slots below len are
\* the initialized ones.
C4_Witness ==
    /\ last.op = "insert"
    /\ last.status = "ok"
    /\ last.len0 >= 2
    /\ last.idx > 0
    /\ last.idx < last.len0
    /\ \A s \in Slots : (s < len) <=> (data[s] # Uninit)

\* C5: from an empty container the first LEN pushes succeed, each storing its
\* element at slot len; the push after them fails, and then len is LEN and
\* the LEN stored elements are the first LEN pushed, in push order.
C5_CapacityCeiling ==
    LET n == Len(pushed.elems)
    IN (pushed.only /\ n > 0) =>
          /\ last.op = "push"
          /\ n <= LEN =>
                /\ last.status = "ok"
                /\ last.idx = n - 1
                /\ len = n
                /\ \A s \in Slots : s < n => data[s] = Init_(pushed.elems[s + 1])
          /\ n = LEN + 1 =>
                /\ last.status = "panic"
                /\ len = LEN
                /\ \A s \in Slots : data[s] = Init_(pushed.elems[s + 1])

\* C5 witness: the push after the LEN-th was made and refused.
C5_Witness ==
    /\ pushed.only
    /\ Len(pushed.elems) = LEN + 1
    /\ last.status = "panic"
    /\ len = LEN

\* C6: iterator exhaustiveness -- along any interleaving of next and
\* next_back on an iterator over a container of length len, no slot is
\* yielded twice and every yielded slot lies in [0, len); once a call has
\* signalled exhaustion exactly len elements have been yielded; and a purely
\* forward pass yields the slots 0, 1, 2, ... in ascending order.
C6_IteratorExhaustive ==
    LET n == Len(yielded)
    IN /\ \A p, q \in 1..n : p # q => yielded[p].slot # yielded[q].slot
       /\ \A p \in 1..n : yielded[p].slot \in 0..(len - 1)
       /\ (ilast.op \in {"next", "next_back"} /\ ilast.status = "ok" /\ ilast.ret = <<>>) =>
              n = len
       /\ (\A p \in 1..n : yielded[p].op = "next") =>
              \A p \in 1..n : yielded[p].slot = p - 1

\* C7: next_back mirrors next -- with i < end it first decrements end and
\* returns the element stored at the new end; with i == end it signals
\* exhaustion and changes nothing.
C7_NextBackSymmetric ==
    ilast.op = "next_back" =>
        IF ilast.i0 < ilast.end0
        THEN /\ ilast.status = "ok"
             /\ end = ilast.end0 - 1
             /\ ilast.slot = end
             /\ ilast.ret # <<>>
             /\ yielded[Len(yielded)].slot = ilast.end0 - 1
        ELSE /\ ilast.status = "ok"
             /\ ilast.ret = <<>>
             /\ i = ilast.i0
             /\ end = ilast.end0

\* C8: exactly-once release -- when the iterator is dropped after any
\* sequence of productions, teardown (the iterator's drop and the drop of the
\* container it wraps) releases every slot still in [i, end) exactly once and
\* no other slot: a slot whose element was yielded is not released.
C8_ReleasedExactlyOnce ==
    dropped =>
        \A s \in Slots :
            released[s] = IF ilast.i0 <= s /\ s < ilast.end0 THEN 1 ELSE 0

\* C9: exhaustion is permanent -- a next or next_back call made with
\* i == end signals exhaustion and yields no element.
C9_ExhaustionPermanent ==
    (ilast.op \in {"next", "next_back"} /\ ilast.i0 = ilast.end0) =>
        /\ ilast.status = "ok"
        /\ ilast.ret = <<>>
        /\ i = ilast.i0
        /\ end = ilast.end0

\* The lexicographic comparison of the initialized prefixes of a and b from
\* index k on: the first differing pair decides, an incomparable pair makes
\* the result None, a strict prefix is Less than its extension.
RECURSIVE Lexicographic(_, _, _)
Lexicographic(a, b, k) ==
    IF k >= a.len /\ k >= b.len THEN "Equal"
    ELSE IF k >= a.len THEN "Less"
    ELSE IF k >= b.len THEN "Greater"
    ELSE LET c == ElemPartialCmp(Ref(a, k), Ref(b, k))
         IN IF c = "Equal" THEN Lexicographic(a, b, k + 1) ELSE c

\* C10: partial_cmp is the lexicographic comparison of the initialized
\* prefixes -- the first differing pair decides, an incomparable pair gives
\* None, a strict prefix is Less (its extension Greater), and equal lengths
\* with all elements equal give Equal.
C10_PartialCmpLexicographic ==
    cres.op = "partial_cmp" => cres.ret = Lexicographic(lhs, rhs, 0)

\* Whether the elements of a below its len are the first elements of b, and
\* b has more.
StrictPrefix(a, b) ==
    /\ a.len < b.len
    /\ \A k \in Slots : k < a.len => ElemEq(Ref(a, k), Ref(b, k))

\* C11: a container that is a strict prefix of another, the empty one
\* included, compares Less than it.
C11_StrictPrefixIsLess ==
    (cres.op = "partial_cmp" /\ StrictPrefix(lhs, rhs)) => cres.ret = "Less"

\* Whether two containers have the same length and equal elements at every
\* index below it.
SameElements(a, b) ==
    /\ a.len = b.len
    /\ \A k \in Slots : k < a.len => ElemEq(Ref(a, k), Ref(b, k))

\* C12: eq(a, b) is true exactly when the lengths are equal and the elements
\* at every index below the length are equal; the slots from the length on
\* have no influence.
C12_EqIsElementwise ==
    cres.op = "eq" => (cres.ret = "true" <=> SameElements(lhs, rhs))

\* C12 witness: eq has answered true for two containers of two elements that
\* differ in the slot past their length.
C12_Witness ==
    /\ cres.op = "eq"
    /\ cres.ret = "true"
    /\ lhs.len = MaxCmpLen
    /\ lhs.data # rhs.data

\* The containers whose elements are all equal to themselves.
TotalContainers == {c \in Containers : TotallyOrdered(c)}

\* C13: where element equality is an equivalence, container equality is
\* one: a == a; a == b implies b == a; a == b and b == c imply a == c.
C13_EqIsEquivalence ==
    (cres.op = "eq" /\ TotallyOrdered(lhs) /\ TotallyOrdered(rhs)) =>
        /\ Eq(lhs, lhs)
        /\ cres.ret = "true" => Eq(rhs, lhs)
        /\ \A c \in TotalContainers :
              (cres.ret = "true" /\ Eq(rhs, c)) => Eq(lhs, c)

\* C13 witness: eq has answered true for two non-empty containers that are
\* not the same array.
C13_Witness ==
    /\ cres.op = "eq"
    /\ cres.ret = "true"
    /\ TotallyOrdered(lhs)
    /\ lhs.len > 0
    /\ lhs.data # rhs.data
    /\ lhs.len < MaxCmpLen

\* The half-open range [lo, hi) of positions a range expression denotes on a
\* container of length n.
Denoted(form, n, a, b) ==
    CASE form = "range" -> [lo |-> a, hi |-> b]
      [] form = "inclusive" -> [lo |-> a, hi |-> b + 1]
      [] form = "from" -> [lo |-> a, hi |-> n]
      [] form = "to" -> [lo |-> 0, hi |-> b]
      [] form = "to_inclusive" -> [lo |-> 0, hi |-> b + 1]
      [] OTHER -> [lo |-> 0, hi |-> n]

\* C14: slice access by any of the six range forms succeeds exactly when the
\* range lies within [0, len] (start <= exclusive end <= len, so an empty
\* range starting at len is accepted), and then shows the elements at the
\* range's positions in order; every other range is a fatal failure.
C14_SliceAcceptsRangesWithinLen ==
    LET r == Denoted(view.form, len, view.start, view.end)
    IN (view.form \notin {"none", "as_slice"}) =>
          /\ view.status = "ok" <=> (r.lo <= r.hi /\ r.hi <= len)
          /\ view.status = "ok" =>
                /\ Len(view.ret) = r.hi - r.lo
                /\ \A k \in 1..Len(view.ret) : data[r.lo + k - 1] = Init_(view.ret[k])

\* C15: push(e) on a container with len < LEN, followed at once by pop(),
\* returns e and leaves len and the elements below len as they were before
\* the push.
C15_PushPopDuality ==
    snap.stage = "popped" =>
        /\ last.op = "pop"
        /\ last.status = "ok"
        /\ last.ret = Init_(snap.elem)
        /\ len = snap.len
        /\ \A s \in Slots : s < len => data[s] = snap.data[s]

\* C15 witness: a push on a non-empty container was followed by a pop.
C15_Witness ==
    /\ snap.stage = "popped"
    /\ last.op = "pop"
    /\ len > 0
    /\ \A s \in Slots : s < len <=> data[s] # Uninit

\* C16: a step that is remove(idx) with idx < len returns the element at idx,
\* moves the elements behind it one place toward the start in their order,
\* leaves the elements before it in place, and decreases len by one.
C16_RemovePreservesOrder ==
    [][(last'.op = "remove" /\ last'.idx < len) =>
            /\ last'.status = "ok"
            /\ Len(last'.ret) = 1
            /\ data[last'.idx] # Uninit => last'.ret = data[last'.idx]
            /\ len' = len - 1
            /\ \A s \in Slots :
                  data'[s] = IF s < last'.idx THEN data[s]
                             ELSE IF s < len - 1 THEN data[s + 1]
                             ELSE IF s = len - 1 THEN Uninit
                             ELSE data[s]]_vars

\* C16 witness: an element with at least two elements behind it was removed
\* from a full container of initialized slots.
C16_Witness ==
    /\ last.op = "remove"
    /\ last.len0 = LEN
    /\ last.idx + 2 < last.len0
    /\ last.ret # <<>>
    /\ len = LEN - 1
    /\ \A s \in Slots : s < len <=> data[s] # Uninit

\* C17: a step that is swap_remove(idx) with idx < len returns the element
\* at idx and decreases len by one; the former last element is then at idx
\* (when idx < len - 1) and every other remaining position keeps its
\* element; with idx = len - 1 only the last slot is vacated, as by
\* remove(idx) and pop().
C17_SwapRemoveMovesLast ==
    [][(last'.op = "swap_remove" /\ last'.idx < len) =>
            /\ last'.status = "ok"
            /\ Len(last'.ret) = 1
            /\ data[last'.idx] # Uninit => last'.ret = data[last'.idx]
            /\ len' = len - 1
            /\ \A s \in Slots :
                  data'[s] = IF s = len - 1 THEN Uninit
                             ELSE IF s = last'.idx THEN data[len - 1]
                             ELSE data[s]
            /\ last'.idx = len - 1 => data' = [data EXCEPT ![len - 1] = Uninit]]_vars

\* C17 witness: swap_remove took an element with at least two elements
\* behind it out of a full container of initialized slots.
C17_Witness ==
    /\ last.op = "swap_remove"
    /\ last.len0 = LEN
    /\ last.idx + 2 < last.len0
    /\ last.ret # <<>>
    /\ len = LEN - 1
    /\ \A s \in Slots : s < len <=> data[s] # Uninit

\* C18: a step that is get, remove or swap_remove with idx >= len, or pop on
\* an empty container, returns None without failing and leaves len and every
\* slot unchanged.
C18_RecoverableAbsence ==
    [][(\/ last'.op \in {"get", "remove", "swap_remove"} /\ last'.idx >= len
        \/ last'.op = "pop" /\ len = 0) =>
            /\ last'.status = "ok"
            /\ last'.ret = <<>>
            /\ len' = len
            /\ data' = data]_vars

\* C18 witness: get was called with idx = len on a non-empty container and
\* returned None.
C18_Witness ==
    /\ last.op = "get"
    /\ last.idx = len
    /\ len > 0
    /\ last.ret = <<>>
    /\ last.status = "ok"

\* C19: a step that is extend(src) on a container of length L appends all of
\* src in order when L + Len(src) <= LEN; otherwise it fails, and then len is
\* LEN, the slots below L are unchanged and the slots L..LEN-1 hold the
\* first LEN - L elements of src in order.
C19_ExtendNotAtomic ==
    [][last'.op = "extend" =>
            LET m == Len(last'.src)
            IN IF len + m <= LEN
               THEN /\ last'.status = "ok"
                    /\ len' = len + m
                    /\ \A s \in Slots :
                          data'[s] = IF len <= s /\ s < len + m
                                     THEN Init_(last'.src[s - len + 1])
                                     ELSE data[s]
               ELSE /\ last'.status = "panic"
                    /\ len' = LEN
                    /\ \A s \in Slots :
                          data'[s] = IF len <= s
                                     THEN Init_(last'.src[s - len + 1])
                                     ELSE data[s]]_vars

\* C19 witness: an extend failed after appending at least one element.
C19_Witness ==
    /\ last.op = "extend"
    /\ last.status = "panic"
    /\ last.len0 < LEN
    /\ len = LEN
    /\ data[LEN - 1] = Init_(last.src[LEN - last.len0])

\* C20: a container built from a source of k <= LEN elements and read back
\* through as_slice() or [..] shows exactly the source's elements in the
\* source's order, and its len is k.
C20_RoundTrip ==
    (view.form \in {"full", "as_slice"} /\ last.op = "from_iter") =>
        /\ view.status = "ok"
        /\ view.ret = last.src
        /\ len = Len(last.src)

\* C20 witness: a container built from LEN elements that are not all the
\* same was read back through as_slice().
C20_Witness ==
    /\ view.form = "as_slice"
    /\ last.op = "from_iter"
    /\ Len(last.src) = LEN
    /\ last.src[1] # last.src[LEN]
    /\ view.ret = last.src

\* C21: a step that is clear() or the destruction of the container releases
\* the slots 0..len-1, each once, in ascending order, and no other slot;
\* clear() leaves len = 0, and the destruction of a container that was just
\* cleared releases nothing.
C21_ReleaseOnceAscending ==
    [][/\ last'.op \in {"clear", "drop"} =>
              /\ last'.rel = UpTo(len)
              /\ \A s \in Slots : data'[s] = IF s < len THEN Uninit ELSE data[s]
       /\ last'.op = "clear" => len' = 0
       /\ (last.op = "clear" /\ last'.op = "drop") => last'.rel = <<>>]_vars

\* C21 witness: a full container of initialized slots was destroyed, which
\* released all LEN slots and left none holding an element.
C21_Witness ==
    /\ dropped
    /\ last.op = "drop"
    /\ last.len0 = LEN
    /\ Len(last.rel) = LEN
    /\ \A s \in Slots : data[s] = Uninit

\* C22: a step that is clone() leaves the original as it was and makes a
\* container of the same capacity and length whose slots below the length
\* hold the original's elements at the same indices and whose other slots
\* hold nothing; the slots read are those below the length, in order.
C22_CloneCopiesInitialized ==
    [][dup'.op = "clone" =>
            /\ lhs' = lhs
            /\ DOMAIN dup'.vec.data = Slots
            /\ dup'.vec.len = lhs.len
            /\ \A s \in Slots :
                  dup'.vec.data[s] = IF s < lhs.len THEN lhs.data[s] ELSE Uninit
            /\ dup'.read = UpTo(lhs.len)]_vars

\* C22 witness: a non-empty container with a value left in a slot past its
\* length was cloned, and the duplicate's slot there holds nothing.
C22_Witness ==
    /\ dup.op = "clone"
    /\ lhs.len > 0
    /\ dup.vec.len = lhs.len
    /\ \E s \in Slots : s >= lhs.len /\ lhs.data[s] # Uninit /\ dup.vec.data[s] = Uninit

\* C23: the iterator's size reports are exact -- after any productions, len,
\* size_hint and count report end - i, which is not negative and is the
\* original length less the number of elements yielded so far.
C23_SizeReportExact ==
    ilast.op \in {"len", "size_hint", "count"} =>
        /\ ilast.status = "ok"
        /\ ilast.end0 - ilast.i0 >= 0
        /\ \A k \in 1..Len(ilast.ret) :
              /\ ilast.ret[k] = ilast.end0 - ilast.i0
              /\ ilast.ret[k] = len - Len(yielded)

\* C24: the cursor invariant -- while the iterator lives,
\* 0 <= i <= end <= len <= LEN, the slots in [i, end) are exactly the slots
\* that still hold an element, and a production takes its element from a
\* slot in the range it started with.
C24_CursorInvariant ==
    ~dropped =>
        /\ 0 <= i /\ i <= end /\ end <= len /\ len <= LEN
        /\ \A s \in Slots : (i <= s /\ s < end) <=> data[s] # Uninit
        /\ (ilast.op \in {"next", "next_back"} /\ ilast.ret # <<>>) =>
              (ilast.i0 <= ilast.slot /\ ilast.slot < ilast.end0)

\* C25: ne is the negation of eq -- for every two containers, two empty
\* ones and ones of equal length that differ in some positions included,
\* ne answers true exactly when eq answers false.
C25_NeNegatesEq ==
    cres.op = "ne" => (cres.ret = "true" <=> ~Eq(lhs, rhs))

\* C26: ordering agrees with equality -- for containers of totally ordered
\* elements partial_cmp is Equal exactly when eq is true, and it is Less
\* exactly when the comparison the other way round is Greater.
C26_OrderConsistentWithEq ==
    (cres.op = "partial_cmp" /\ TotallyOrdered(lhs) /\ TotallyOrdered(rhs)) =>
        /\ cres.ret = "Equal" <=> Eq(lhs, rhs)
        /\ cres.ret = "Less" <=> PartialCmp(rhs, lhs) = "Greater"

\* C27: cloning the iterator after any productions reads only the slots in
\* [i, end), which still hold their elements; a slot whose element was
\* already yielded is not read.
C27_IterCloneReadsRemaining ==
    dup.op = "iter_clone" =>
        \A k \in 1..Len(dup.read) :
            /\ dup.i <= dup.read[k] /\ dup.read[k] < dup.end
            /\ data[dup.read[k]] # Uninit
            /\ \A p \in 1..Len(yielded) : yielded[p].slot # dup.read[k]

====
